---- MODULE Spec2Model ----
(***************************************************************************)
(* Token lifecycle and authenticated-request layer of the U-tec local      *)
(* gateway (src/gateway/main.py).  Coroutines of the single asyncio event  *)
(* loop are modelled as tasks; one action is the code a coroutine runs     *)
(* between two suspension points (await of network I/O or of a sleep).     *)
(***************************************************************************)
EXTENDS Integers, Sequences, FiniteSets, TLC

\* ---------------------------------------------------------------- bounds
MaxExchanges == 2
MaxTicks == 1
MaxPolls == 2

\* The coroutines: the token-health job (the scheduler runs one instance of
\* a job at a time) and HTTP handlers.
Handlers == {"h1", "h2"}
Procs == {"health", "poll"} \cup Handlers
Serial == {"health", "h1"}

\* Clock advances (seconds) the environment may make between two steps.
TimeSteps == {300}
\* expires_in values (seconds) the vendor may return.
ExpiresInValues == {300}
\* refresh_buffer_minutes values a configuration update may set.
BufferChoices == {0, 5}
\* Status codes of a response other than 200.
ErrorStatuses == {400}

\* ------------------------------------------------------ program constants
max_retries == 2
DefaultExpiresIn == 3600
DefaultRefreshBufferMinutes == 5
DefaultStatusPollInterval == 60
TokenCheckMinutes == 5
SecondsPerMinute == 60
SecondsPerDay == 86400

None == [none |-> TRUE]

VARIABLES
    config_data,   \* the process-wide configuration dictionary
    expires_at,    \* the instant set_token_expiration last computed (None if never)
    now,           \* datetime.now(), in seconds
    ticks,         \* number of clock advances so far (bounded by MaxTicks)
    exchanges,     \* refresh_token exchanges the vendor has received
    tasks,         \* per coroutine: position and live local variables
    last,          \* what the latest step returned or received
    trail,         \* per coroutine: the sends of its request so far (history)
    latest_devices,      \* the gateway's cached device list
    latest_status,       \* the gateway's cached status
    last_status_update,  \* when latest_status was stored
    polls,         \* poll cycles started so far (bounded by MaxPolls)
    scheduler,     \* per scheduler job: the interval of its trigger, seconds
    data,          \* the Home Assistant coordinator's merged snapshot
    config_file    \* the content of CONFIG_FILE

\* The gateway's cached snapshot.
snapshot == <<latest_devices, latest_status, last_status_update>>

\* What the token and request operations neither read nor write; the
\* configuration file, written by save_config and read at startup only, is
\* followed where Written is part of the step.
others == <<snapshot, polls, scheduler, data, config_file>>

vars == <<config_data, expires_at, now, ticks, exchanges, tasks, last, trail,
          latest_devices, latest_status, last_status_update, polls,
          scheduler, data, config_file>>

\* ------------------------------------------------------------ datetimes
\* A datetime is [ts |-> seconds]; None is the absent value.
Datetime(n) == [ts |-> n]

\* datetime.isoformat(): a date part and a time-of-day part.
IsoFormat(d) == [date |-> d.ts \div SecondsPerDay, time |-> d.ts % SecondsPerDay]

\* datetime.fromisoformat()
FromIsoFormat(s) == Datetime(s.date * SecondsPerDay + s.time)

TimedeltaMinutes_AsHours(m) == m * SecondsPerMinute * SecondsPerMinute

\* timedelta(minutes=m), in seconds
TimedeltaMinutes(m) == m * SecondsPerMinute

GetTokenExpiration(cfg) ==
    IF cfg.token_expires_at = None THEN None
    ELSE FromIsoFormat(cfg.token_expires_at)

SetTokenExpiration(cfg, t, expires_in) ==
    [cfg EXCEPT !.token_expires_at = IsoFormat(Datetime(t + expires_in))]

IsTokenExpired_Strict(cfg, t) ==
    LET expiration == GetTokenExpiration(cfg) IN
    IF expiration = None THEN TRUE
    ELSE t + TimedeltaMinutes(cfg.refresh_buffer_minutes) > expiration.ts

IsTokenExpired(cfg, t) ==
    LET expiration == GetTokenExpiration(cfg) IN
    IF expiration = None THEN TRUE
    ELSE t + TimedeltaMinutes(cfg.refresh_buffer_minutes) >= expiration.ts

\* ------------------------------------------------------ vendor responses
AccessTokenName(n) == "A" \o ToString(n)
RefreshTokenName(n) == "R" \o ToString(n)

NoResponse ==
    [kind |-> "none", status |-> 0, json_ok |-> FALSE,
     has_access_token |-> FALSE, access_token |-> "",
     has_refresh_token |-> FALSE, refresh_token |-> "",
     has_expires_in |-> FALSE, expires_in_valid |-> FALSE, expires_in |-> 0]

\* What the token endpoint may answer to exchange number n.
TokenResponses(n) ==
    {[NoResponse EXCEPT !.kind = "transport"]}
    \cup {[NoResponse EXCEPT !.kind = "http", !.status = s] : s \in ErrorStatuses}
    \cup {[NoResponse EXCEPT !.kind = "http", !.status = 200]}
    \cup {[kind |-> "http", status |-> 200, json_ok |-> TRUE,
           has_access_token |-> a,
           access_token |-> IF a THEN AccessTokenName(n) ELSE "",
           has_refresh_token |-> r,
           refresh_token |-> IF r THEN RefreshTokenName(n) ELSE "",
           has_expires_in |-> e.has, expires_in_valid |-> e.valid,
           expires_in |-> e.value] :
          a \in BOOLEAN, r \in BOOLEAN,
          e \in {[has |-> FALSE, valid |-> FALSE, value |-> 0],
                 [has |-> TRUE, valid |-> FALSE, value |-> 0]}
                \cup {[has |-> TRUE, valid |-> TRUE, value |-> v] :
                      v \in ExpiresInValues}}

\* ------------------------------------------------- refresh_access_token
AccessTokenAfter(cfg, token_data) ==
    IF token_data.has_access_token THEN token_data.access_token ELSE ""

RefreshTokenAfter_Cleared(cfg, token_data) ==
    IF token_data.has_refresh_token THEN token_data.refresh_token ELSE ""

RefreshTokenAfter(cfg, token_data) ==
    IF token_data.has_refresh_token THEN token_data.refresh_token
    ELSE cfg.refresh_token

ExpiresInOf_AlwaysDefault(token_data) == DefaultExpiresIn

ExpiresInOf(token_data) ==
    IF token_data.has_expires_in THEN token_data.expires_in
    ELSE DefaultExpiresIn

HandleTokenResponse_DroppedWhenDisabled(cfg, t, response) ==
    IF ~cfg.auto_refresh_enabled THEN [cfg |-> cfg, ret |-> FALSE]
    ELSE IF response.kind = "transport" THEN [cfg |-> cfg, ret |-> FALSE]
    ELSE IF response.status # 200 THEN [cfg |-> cfg, ret |-> FALSE]
    ELSE IF ~response.json_ok THEN [cfg |-> cfg, ret |-> FALSE]
    ELSE LET updated == [cfg EXCEPT
                 !.access_token = AccessTokenAfter(cfg, response),
                 !.refresh_token = RefreshTokenAfter(cfg, response)] IN
         IF response.has_expires_in /\ ~response.expires_in_valid
         THEN [cfg |-> updated, ret |-> FALSE]
         ELSE [cfg |-> SetTokenExpiration(updated, t, ExpiresInOf(response)),
               ret |-> TRUE]

\* The part of refresh_access_token after `await client.post(...)`:
\* the configuration it leaves and the boolean it returns.
HandleTokenResponse(cfg, t, response) ==
    IF response.kind = "transport" THEN [cfg |-> cfg, ret |-> FALSE]
    ELSE IF response.status # 200 THEN [cfg |-> cfg, ret |-> FALSE]
    ELSE IF ~response.json_ok THEN [cfg |-> cfg, ret |-> FALSE]
    ELSE LET updated == [cfg EXCEPT
                 !.access_token = AccessTokenAfter(cfg, response),
                 !.refresh_token = RefreshTokenAfter(cfg, response)] IN
         IF response.has_expires_in /\ ~response.expires_in_valid
         THEN [cfg |-> updated, ret |-> FALSE]
         ELSE [cfg |-> SetTokenExpiration(updated, t, ExpiresInOf(response)),
               ret |-> TRUE]

\* --------------------------------------------------- ensure_valid_token
EnsureValidBranch_AlwaysRefresh(cfg, t) ==
    IF cfg.access_token = "" THEN "no_token" ELSE "refresh"

EnsureValidBranch_NeverRefresh(cfg, t) ==
    IF cfg.access_token = "" THEN "no_token" ELSE "valid"

EnsureValidBranch_NoTokenValid(cfg, t) ==
    IF cfg.access_token = "" THEN "valid"
    ELSE IF IsTokenExpired(cfg, t) THEN "refresh"
    ELSE "valid"

EnsureValidBranch(cfg, t) ==
    IF cfg.access_token = "" THEN "no_token"
    ELSE IF IsTokenExpired(cfg, t) THEN "refresh"
    ELSE "valid"

\* ------------------------------------------------------------------ tasks
NoResult == [kind |-> "none", status |-> 0, error |-> ""]

IdleTask ==
    [op |-> "idle", pc |-> "idle", site |-> "none", attempt |-> 0,
     authorization |-> "", xid |-> 0, method |-> "POST"]

\* The values a step returned to its callers, for the step just taken.
NoObservation ==
    [task |-> "none", call |-> "none", response |-> NoResponse,
     refresh_ret |-> "none", ensure_ret |-> "none",
     expired_at_call |-> "none", result |-> NoResult,
     site |-> "none", outcome |-> NoResult, delay |-> 0,
     device_list |-> <<>>, statuses |-> <<>>, saves |-> <<>>,
     body |-> None, success |-> "none", refresh_requested |-> "none"]

Bool(b) == IF b THEN "True" ELSE "False"

DefaultConfig ==
    [access_token |-> "", refresh_token |-> "", token_expires_at |-> None,
     auto_refresh_enabled |-> TRUE,
     refresh_buffer_minutes |-> DefaultRefreshBufferMinutes,
     access_key |-> "", secret_key |-> "", redirect_uri |-> "",
     status_poll_interval |-> DefaultStatusPollInterval]

\* ------------------------------------------------- the configuration file
\* CONFIG_FILE does not exist.
NoFile == [kind |-> "absent", text |-> DefaultConfig]

\* CONFIG_FILE was opened for writing (and so truncated) but the dump did
\* not complete: what it holds is not JSON.
Truncated == [kind |-> "truncated", text |-> DefaultConfig]

\* json.dump(config_data, f): the file holds the dictionary's items.
JsonDump(cfg) == [kind |-> "json", text |-> cfg]

\* json.load(f) of a file that holds JSON.
JsonLoad(file) == file.text

\* How one call of save_config may go: the file is written, open() fails
\* (the file stays as it is), or the write fails after open() truncated it.
SaveOutcomes == {"ok", "open_failed", "write_failed"}

SaveConfig_Propagates(file, cfg, o) ==
    [file |-> CASE o = "ok" -> JsonDump(cfg)
                [] o = "open_failed" -> file
                [] o = "write_failed" -> Truncated,
     raised |-> o # "ok"]

SaveConfig_KeepsFile(file, cfg, o) == [file |-> file, raised |-> FALSE]

\* save_config() with outcome o: the file it leaves and whether it raises
\* (it logs every exception and returns).
SaveConfig(file, cfg, o) ==
    [file |-> CASE o = "ok" -> JsonDump(cfg)
                [] o = "open_failed" -> file
                [] o = "write_failed" -> Truncated,
     raised |-> FALSE]

\* The calls of save_config a step makes one after the other, with
\* outcomes os, up to the first that raises.
RECURSIVE SaveAll(_, _, _)
SaveAll(file, cfg, os) ==
    IF os = <<>> THEN [file |-> file, raised |-> FALSE]
    ELSE LET first == SaveConfig(file, cfg, Head(os)) IN
         IF first.raised THEN first ELSE SaveAll(first.file, cfg, Tail(os))

\* load_config() at startup: the items of the file are put over the
\* defaults; a file that is absent or cannot be parsed leaves the defaults.
LoadConfig(defaults, file) ==
    IF file.kind = "json"
    THEN [f \in DOMAIN defaults |->
             IF f \in DOMAIN JsonLoad(file) THEN JsonLoad(file)[f]
             ELSE defaults[f]]
    ELSE defaults

\* IntervalTrigger(seconds=n), IntervalTrigger(minutes=m): the period.
IntervalTrigger(seconds) == [interval |-> seconds]

\* The cached snapshot of a process that has not polled yet; cycle names the
\* poll cycle that stored the value (0: none).
NoDevices == [cycle |-> 0, devices |-> <<>>]

\* The empty dictionary.
EmptyDict == [k \in {} |-> k]
NoStatus == [cycle |-> 0, devices |-> <<>>]

\* Credentials a previous run may have saved to the configuration file.
SavedCredentials ==
    {[access_token |-> "", refresh_token |-> "", expires_at |-> None]}
    \cup {[access_token |-> AccessTokenName(0),
           refresh_token |-> RefreshTokenName(0), expires_at |-> e] :
          e \in {Datetime(v) : v \in ExpiresInValues}}

Init ==
    \E saved \in SavedCredentials :
        /\ config_data =
             [DefaultConfig EXCEPT
                !.access_token = saved.access_token,
                !.refresh_token = saved.refresh_token,
                !.token_expires_at =
                    IF saved.expires_at = None THEN None
                    ELSE IsoFormat(saved.expires_at)]
        /\ expires_at = saved.expires_at
        /\ now = 0
        /\ ticks = 0
        /\ exchanges = 0
        /\ tasks = [p \in Procs |-> IdleTask]
        /\ last = NoObservation
        /\ trail = [p \in Procs |-> <<>>]
        /\ latest_devices = NoDevices
        /\ latest_status = NoStatus
        /\ last_status_update = 0
        /\ polls = 0
        /\ scheduler =
             [token_refresh |->
                  IntervalTrigger(TimedeltaMinutes(TokenCheckMinutes)),
              status_poll |->
                  IntervalTrigger(DefaultConfig.status_poll_interval)]
        /\ data = EmptyDict
        /\ config_file = IF saved.access_token = "" THEN NoFile
                         ELSE JsonDump(config_data)

\* ------------------------------------------------------------ operations
\* A step's effect on the task that takes it and on what it returned.
Step(tk, obs) == [tk |-> tk, obs |-> obs]

\* The requests poll_device_status makes.
PollOps == {"poll_discovery", "poll_status"}

\* The handlers of the on-demand operations.
OnDemandOps == {"query_status", "lock_device", "unlock_device"}

\* Where a task is once its call has returned or raised: back in
\* poll_device_status or in the on-demand handler (which goes on in the
\* same run of the event loop), or done.
Returned(tk) ==
    IF tk.op \in PollOps \cup OnDemandOps
    THEN [IdleTask EXCEPT !.op = tk.op, !.pc = "returned"]
    ELSE IdleTask

Raise(st, e) ==
    Step(Returned(st.tk),
         [st.obs EXCEPT !.result = [kind |-> "raise", status |-> 0, error |-> e]])

ReturnResponse(st, r) ==
    Step(Returned(st.tk), [st.obs EXCEPT !.result = r])

\* `for attempt in range(max_retries + 1)`
AttemptRange == 0..max_retries

Send_AttemptNotAdvanced(st, a) ==
    Step([st.tk EXCEPT !.pc = "send_await", !.site = "none", !.xid = 0],
         st.obs)

\* `method.upper()` is "GET" or "POST"
Supported(method) == method \in {"GET", "POST"}

\* The loop goes to attempt a: `await client.get(...)` or `await
\* client.post(url, headers=request_headers, ...)`; for another method the
\* ValueError raised in the try block, which `except Exception` answers
\* with a backoff sleep while attempts remain and raises again on the last
\* one; or, the range exhausted, the raise that follows the loop.
Send(st, a) ==
    IF a \notin AttemptRange THEN Raise(st, "Max retries exceeded")
    ELSE IF Supported(st.tk.method)
    THEN Step([st.tk EXCEPT !.pc = "send_await", !.attempt = a,
                            !.site = "none", !.xid = 0], st.obs)
    ELSE IF a < max_retries
    THEN Step([st.tk EXCEPT !.pc = "sleep", !.attempt = a,
                            !.site = "none", !.xid = 0],
              [st.obs EXCEPT
                  !.outcome = [kind |-> "raise", status |-> 0,
                               error |-> "ValueError"],
                  !.delay = 2 ^ a])
    ELSE Raise(st, "ValueError")

AfterEnsureValid_SendsAnyway(st, v, cfg) ==
    LET seen == Step(st.tk, [st.obs EXCEPT !.ensure_ret = Bool(v)]) IN
    Send(Step([seen.tk EXCEPT !.authorization = cfg.access_token],
              seen.obs), 0)

\* make_authenticated_request after ensure_valid_token returned v.
AfterEnsureValid(st, v, cfg) ==
    LET seen == Step(st.tk, [st.obs EXCEPT !.ensure_ret = Bool(v)]) IN
    IF v
    THEN Send(Step([seen.tk EXCEPT !.authorization = cfg.access_token],
                   seen.obs), 0)
    ELSE Raise(seen, "TokenRefreshError")

\* poll_device_status after its own call of ensure_valid_token returned v:
\* it goes on to the discovery request, or logs and returns.
AfterPollEnsureValid(st, v) ==
    IF v THEN Step([IdleTask EXCEPT !.op = "poll", !.pc = "returned"],
                   [st.obs EXCEPT !.ensure_ret = Bool(v)])
    ELSE Step(IdleTask,
              [st.obs EXCEPT
                  !.ensure_ret = Bool(v),
                  !.result = [kind |-> "return", status |-> 0,
                              error |-> "no valid token"]])

AfterRefresh_StaleHeader(st, s, v, cfg) ==
    LET seen == Step(st.tk, [st.obs EXCEPT !.refresh_ret = Bool(v)]) IN
    CASE s = "ensure_valid" -> AfterEnsureValid(seen, v, cfg)
      [] s = "on_401" ->
            IF v THEN Send(seen, seen.tk.attempt + 1)
            ELSE ReturnResponse(seen, [kind |-> "http", status |-> 401,
                                       error |-> ""])
      [] s = "scheduled" -> Step(IdleTask, seen.obs)
      [] s = "manual" ->
            ReturnResponse(seen, [kind |-> "http",
                                  status |-> IF v THEN 200 ELSE 500,
                                  error |-> ""])
      [] s = "poll" -> AfterPollEnsureValid(seen, v)

AfterRefresh_RetriesAnyway(st, s, v, cfg) ==
    LET seen == Step(st.tk, [st.obs EXCEPT !.refresh_ret = Bool(v)]) IN
    CASE s = "ensure_valid" -> AfterEnsureValid(seen, v, cfg)
      [] s = "on_401" ->
            Send(Step([seen.tk EXCEPT !.authorization = cfg.access_token],
                      seen.obs), seen.tk.attempt + 1)
      [] s = "scheduled" -> Step(IdleTask, seen.obs)
      [] s = "manual" ->
            ReturnResponse(seen, [kind |-> "http",
                                  status |-> IF v THEN 200 ELSE 500,
                                  error |-> ""])
      [] s = "poll" -> AfterPollEnsureValid(seen, v)

\* The code that runs when refresh_access_token returns v at call site s.
AfterRefresh(st, s, v, cfg) ==
    LET seen == Step(st.tk, [st.obs EXCEPT !.refresh_ret = Bool(v)]) IN
    CASE s = "ensure_valid" -> AfterEnsureValid(seen, v, cfg)
      [] s = "on_401" ->
            IF v THEN Send(Step([seen.tk EXCEPT
                                    !.authorization = cfg.access_token],
                                seen.obs), seen.tk.attempt + 1)
            ELSE ReturnResponse(seen, [kind |-> "http", status |-> 401,
                                       error |-> ""])
      [] s = "scheduled" -> Step(IdleTask, seen.obs)
      [] s = "manual" ->
            ReturnResponse(seen, [kind |-> "http",
                                  status |-> IF v THEN 200 ELSE 500,
                                  error |-> ""])
      [] s = "poll" -> AfterPollEnsureValid(seen, v)

\* A call of refresh_access_token by task p at site s: without a refresh
\* token it returns False at once, otherwise it posts the exchange and
\* suspends in `await client.post(...)`.
CallRefresh(p, st, s) ==
    IF config_data.refresh_token = ""
    THEN LET after == AfterRefresh(Step(st.tk, [st.obs EXCEPT !.site = s]),
                                   s, FALSE, config_data) IN
         /\ exchanges' = exchanges
         /\ tasks' = [tasks EXCEPT ![p] = after.tk]
         /\ last' = after.obs
    ELSE /\ exchanges < MaxExchanges
         /\ exchanges' = exchanges + 1
         /\ tasks' = [tasks EXCEPT ![p] =
                [st.tk EXCEPT !.pc = "refresh_await", !.site = s,
                              !.xid = exchanges + 1]]
         /\ last' = [st.obs EXCEPT !.site = s]

\* make_authenticated_request(method, ...) called by task p for its
\* operation op, from the call to its first suspension.
StartRequestWith(p, op, method) ==
    LET st == Step([IdleTask EXCEPT !.op = op, !.method = method],
                   [NoObservation EXCEPT
                       !.task = p, !.call = "make_authenticated_request",
                       !.expired_at_call =
                           Bool(IsTokenExpired(config_data, now))])
        branch == EnsureValidBranch(config_data, now) IN
    IF branch = "refresh"
    THEN CallRefresh(p, st, "ensure_valid")
    ELSE LET after == AfterEnsureValid(st, branch = "valid", config_data) IN
         /\ tasks' = [tasks EXCEPT ![p] = after.tk]
         /\ last' = after.obs
         /\ exchanges' = exchanges

\* The calls in the gateway: make_authenticated_request("POST", ...)
StartRequest(p, op) == StartRequestWith(p, op, "POST")

\* A call of make_authenticated_request with any method.
MakeRequestWithMethod(p) ==
    /\ p \in Handlers
    /\ tasks[p].pc = "idle"
    /\ \E method \in {"GET", "POST", "PUT"} :
          StartRequestWith(p, "request", method)
    /\ UNCHANGED <<config_data, expires_at, now, ticks>>

\* An HTTP handler calls make_authenticated_request.
MakeAuthenticatedRequest(p) ==
    /\ p \in Handlers
    /\ tasks[p].pc = "idle"
    /\ StartRequest(p, "request")
    /\ UNCHANGED <<config_data, expires_at, now, ticks>>

\* The outcomes of the n calls of save_config a step makes, drawn from O.
SaveRuns(n, O) ==
    CASE n = 0 -> {<<>>}
      [] n = 1 -> {<<a>> : a \in O}
      [] n = 2 -> {<<a, b>> : a \in O, b \in O}

\* refresh_access_token resumes with the token endpoint's answer; on the
\* success path it saves twice (in set_token_expiration, then itself),
\* each save going one of the ways in O (recorded in last.saves), and an
\* exception raised there would be caught by its `except Exception` and
\* turned into False.
TokenResponseSaving(p, O) ==
    /\ tasks[p].pc = "refresh_await"
    /\ \E response \in TokenResponses(tasks[p].xid) :
        LET h == HandleTokenResponse(config_data, now, response) IN
        \E os \in SaveRuns(IF h.ret THEN 2 ELSE 0, O) :
            LET saved == SaveAll(config_file, h.cfg, os)
                ret == h.ret /\ ~saved.raised
                st == Step(tasks[p],
                           [NoObservation EXCEPT
                               !.task = p, !.call = "refresh_access_token",
                               !.site = tasks[p].site, !.response = response,
                               !.saves = os])
                after == AfterRefresh(st, tasks[p].site, ret, h.cfg) IN
            /\ config_data' = h.cfg
            /\ expires_at' = IF h.ret
                             THEN Datetime(now + ExpiresInOf(response))
                             ELSE expires_at
            /\ tasks' = [tasks EXCEPT ![p] = after.tk]
            /\ last' = after.obs
    /\ UNCHANGED <<now, ticks, exchanges>>

\* The same where every save succeeds.
TokenResponse(p) == TokenResponseSaving(p, {"ok"})

\* What the device API may do with one send.
ApiOutcomes ==
    {[kind |-> "http", status |-> s, error |-> ""] : s \in {200, 401, 500}}
    \cup {[kind |-> "raise", status |-> 0, error |-> e] :
          e \in {"TimeoutException", "ConnectError"}}

\* `response.status_code == 401 and attempt < max_retries`
ShouldReauth_AnyErrorStatus(out, attempt) ==
    out.kind = "http" /\ out.status >= 400 /\ attempt < max_retries

ShouldReauth_NoBudget(out, attempt) ==
    out.kind = "http" /\ out.status = 401

ShouldReauth(out, attempt) ==
    out.kind = "http" /\ out.status = 401 /\ attempt < max_retries

\* The argument of `asyncio.sleep(2 ** attempt)`
BackoffDelay_Linear(attempt) == 2 * attempt

BackoffDelay(attempt) == 2 ^ attempt

\* The request loop resumes with the outcome of `await client.post(...)`.
ApiResponse(p) ==
    /\ tasks[p].pc = "send_await"
    /\ \E out \in ApiOutcomes :
        LET st == Step(tasks[p],
                       [NoObservation EXCEPT
                           !.task = p, !.call = "send", !.outcome = out]) IN
        IF ShouldReauth(out, tasks[p].attempt)
        THEN CallRefresh(p, st, "on_401")
        ELSE LET after ==
                    IF out.kind = "http" THEN ReturnResponse(st, out)
                    ELSE IF tasks[p].attempt < max_retries
                    THEN Step([tasks[p] EXCEPT !.pc = "sleep"],
                              [st.obs EXCEPT
                                  !.delay = BackoffDelay(tasks[p].attempt)])
                    ELSE Raise(st, out.error) IN
             /\ exchanges' = exchanges
             /\ tasks' = [tasks EXCEPT ![p] = after.tk]
             /\ last' = after.obs
    /\ UNCHANGED <<config_data, expires_at, now, ticks>>

\* `await asyncio.sleep(2 ** attempt)` returns; the loop sends again.
SleepDone(p) ==
    /\ tasks[p].pc = "sleep"
    /\ LET after == Send(Step(tasks[p],
                              [NoObservation EXCEPT
                                  !.task = p, !.call = "sleep"]),
                         tasks[p].attempt + 1) IN
       /\ tasks' = [tasks EXCEPT ![p] = after.tk]
       /\ last' = after.obs
    /\ UNCHANGED <<config_data, expires_at, now, ticks, exchanges>>

\* scheduled_token_check: auto refresh enabled and `is_token_expired()`
ShouldScheduledRefresh_IgnoresFlag(cfg, t) == IsTokenExpired(cfg, t)

ShouldScheduledRefresh(cfg, t) ==
    cfg.auto_refresh_enabled /\ IsTokenExpired(cfg, t)

\* The token-health job.
ScheduledTokenCheck(p) ==
    /\ p = "health"
    /\ tasks[p].pc = "idle"
    /\ LET st == Step([IdleTask EXCEPT !.op = "token_check"],
                      [NoObservation EXCEPT
                          !.task = p, !.call = "scheduled_token_check"]) IN
       IF ShouldScheduledRefresh(config_data, now)
       THEN CallRefresh(p, st, "scheduled")
       ELSE /\ tasks' = [tasks EXCEPT ![p] = IdleTask]
            /\ last' = st.obs
            /\ exchanges' = exchanges
    /\ UNCHANGED <<config_data, expires_at, now, ticks>>

\* POST /api/oauth/refresh
ManualRefreshToken(p) ==
    /\ p \in Handlers
    /\ tasks[p].pc = "idle"
    /\ CallRefresh(p, Step([IdleTask EXCEPT !.op = "manual_refresh"],
                           [NoObservation EXCEPT
                               !.task = p, !.call = "manual_refresh_token"]),
                   "manual")
    /\ UNCHANGED <<config_data, expires_at, now, ticks>>

\* The part of exchange_code after `await client.post(...)`: the
\* configuration it leaves and the status the handler answers with.  Every
\* exception raised inside the try block, the HTTPException of a rejected
\* code included, is caught and raised again with status 500.
HandleExchangeResponse(cfg, t, response) ==
    IF response.kind = "transport" THEN [cfg |-> cfg, status |-> 500]
    ELSE IF response.status # 200 THEN [cfg |-> cfg, status |-> 500]
    ELSE IF ~response.json_ok THEN [cfg |-> cfg, status |-> 500]
    ELSE LET updated == [cfg EXCEPT
                 !.access_token = AccessTokenAfter(cfg, response),
                 !.refresh_token =
                     IF response.has_refresh_token
                     THEN response.refresh_token ELSE ""] IN
         IF ~response.has_expires_in
         THEN [cfg |-> updated, status |-> 200]
         ELSE IF ~response.expires_in_valid
         THEN [cfg |-> updated, status |-> 500]
         ELSE [cfg |-> SetTokenExpiration(updated, t, response.expires_in),
               status |-> 200]

\* POST /api/oauth/exchange, from the call to its suspension in
\* `await client.post(...)`; a body without a code is answered 400.
ExchangeCode(p) ==
    /\ p \in Handlers
    /\ tasks[p].pc = "idle"
    /\ \E code \in {"", "code"} :
        LET obs == [NoObservation EXCEPT
                       !.task = p, !.call = "exchange_code"] IN
        IF code = ""
        THEN /\ tasks' = tasks
             /\ exchanges' = exchanges
             /\ last' = [obs EXCEPT !.result =
                             [kind |-> "http", status |-> 400, error |-> ""]]
        ELSE /\ exchanges < MaxExchanges
             /\ exchanges' = exchanges + 1
             /\ tasks' = [tasks EXCEPT ![p] =
                    [IdleTask EXCEPT !.op = "exchange", !.pc = "exchange_await",
                                     !.xid = exchanges + 1]]
             /\ last' = obs
    /\ UNCHANGED <<config_data, expires_at, now, ticks>>

\* exchange_code resumes with the token endpoint's answer; where it
\* stores tokens it saves once, and once more before, in
\* set_token_expiration, when the answer carries expires_in.
ExchangeResponseSaving(p, O) ==
    /\ tasks[p].pc = "exchange_await"
    /\ \E response \in TokenResponses(tasks[p].xid) :
        LET h == HandleExchangeResponse(config_data, now, response) IN
        \E os \in SaveRuns(IF h.status # 200 THEN 0
                            ELSE IF response.has_expires_in THEN 2 ELSE 1,
                            O) :
            LET saved == SaveAll(config_file, h.cfg, os) IN
            /\ config_data' = h.cfg
            /\ expires_at' =
                  IF h.status = 200 /\ response.has_expires_in
                  THEN Datetime(now + response.expires_in) ELSE expires_at
            /\ tasks' = [tasks EXCEPT ![p] = IdleTask]
            /\ last' = [NoObservation EXCEPT
                            !.task = p, !.call = "exchange_code",
                            !.response = response, !.saves = os,
                            !.result =
                                [kind |-> "http",
                                 status |-> IF saved.raised THEN 500
                                            ELSE h.status,
                                 error |-> ""]]
    /\ UNCHANGED <<now, ticks, exchanges>>

\* The same where every save succeeds.
ExchangeResponse(p) == ExchangeResponseSaving(p, {"ok"})

\* ------------------------------------- query_status, lock_device, unlock_device
\* The exceptions raised inside the try block of an on-demand handler:
\* those of make_authenticated_request, the decoding error of
\* response.json() and the handler's own HTTPException.
HandlerExceptions ==
    {"TokenRefreshError", "TimeoutException", "ConnectError",
     "Max retries exceeded", "JSONDecodeError", "HTTPException"}

\* The status of the handler's reply when exception e is raised inside its
\* try block: `except TokenRefreshError` answers 401, and `except
\* Exception`, which every other class here derives from, answers 500.
ReplyToException(e) ==
    IF e = "TokenRefreshError" THEN 401
    ELSE IF e \in HandlerExceptions THEN 500
    ELSE 0

\* The status of the handler's reply to what make_authenticated_request
\* gave: 200 with the decoded body, or the exception raised for it.
ReplyStatus(result, json_ok) ==
    IF result.kind = "raise" THEN ReplyToException(result.error)
    ELSE IF result.status = 200
    THEN (IF json_ok THEN 200 ELSE ReplyToException("JSONDecodeError"))
    ELSE ReplyToException("HTTPException")

\* The handler's reply, with what the vendor request gave in outcome.
OnDemandReply(p, op, outcome, status) ==
    /\ tasks' = [tasks EXCEPT ![p] = IdleTask]
    /\ last' = [NoObservation EXCEPT
                    !.task = p, !.call = op, !.outcome = outcome,
                    !.result = [kind |-> "http", status |-> status,
                                error |-> ""]]

\* POST /api/status, /api/lock or /api/unlock arrives: a body without id
\* raises HTTPException(400) inside the try block; otherwise the handler
\* calls make_authenticated_request.
OnDemand(p) ==
    /\ p \in Handlers
    /\ tasks[p].pc = "idle"
    /\ \E op \in OnDemandOps, device_id \in {"", "d1"} :
          IF device_id = ""
          THEN /\ OnDemandReply(p, op, NoResult,
                                ReplyToException("HTTPException"))
               /\ exchanges' = exchanges
          ELSE StartRequest(p, op)
    /\ UNCHANGED <<config_data, expires_at, now, ticks>>

\* make_authenticated_request has returned or raised: the handler replies.
OnDemandAnswer(p) ==
    /\ tasks[p].pc = "returned"
    /\ tasks[p].op \in OnDemandOps
    /\ \E json_ok \in BOOLEAN :
          OnDemandReply(p, tasks[p].op, last.result,
                        ReplyStatus(last.result, json_ok))
    /\ UNCHANGED <<config_data, expires_at, now, ticks, exchanges>>

\* ---------------------------------------------------- poll_device_status
\* Device lists a discovery response may carry.
DiscoveryLists == {<<>>, <<"d1">>, <<"d1", "d2">>}

\* The body of a 200 response: JSON carrying devices, or not JSON.
Bodies(lists) ==
    {[json_ok |-> FALSE, devices |-> <<>>]}
    \cup {[json_ok |-> TRUE, devices |-> l] : l \in lists}

\* The exception classes the job can meet; all derive from Exception.
ExceptionSubclasses ==
    {"TokenRefreshError", "TimeoutException", "ConnectError",
     "Max retries exceeded", "JSONDecodeError"}

CaughtByExcept_TransportOnly(e) == e \in {"TimeoutException", "ConnectError"}

\* `except Exception as e` of poll_device_status
CaughtByExcept(e) == e \in ExceptionSubclasses

\* How a run of poll_device_status ends when exception e is raised in its
\* try block: logged and returned from, or raised to the scheduler.
PollRaised(e) ==
    IF CaughtByExcept(e) THEN [kind |-> "return", status |-> 0, error |-> e]
    ELSE [kind |-> "raise", status |-> 0, error |-> e]

\* The run of poll_device_status by task p ends with result r.
PollEnd(p, r) ==
    /\ tasks' = [tasks EXCEPT ![p] = IdleTask]
    /\ last' = [NoObservation EXCEPT
                    !.task = p, !.call = "poll_device_status", !.result = r]
    /\ exchanges' = exchanges

\* The status_poll job starts: poll_device_status up to its first
\* suspension, or to the point where ensure_valid_token has returned True.
PollDeviceStatus(p) ==
    /\ p = "poll"
    /\ tasks[p].pc = "idle"
    /\ polls < MaxPolls
    /\ polls' = polls + 1
    /\ LET st == Step([IdleTask EXCEPT !.op = "poll"],
                      [NoObservation EXCEPT
                          !.task = p, !.call = "poll_device_status"])
           branch == EnsureValidBranch(config_data, now) IN
       IF branch = "refresh"
       THEN CallRefresh(p, st, "poll")
       ELSE LET after == AfterPollEnsureValid(st, branch = "valid") IN
            /\ tasks' = [tasks EXCEPT ![p] = after.tk]
            /\ last' = after.obs
            /\ exchanges' = exchanges
    /\ UNCHANGED <<config_data, expires_at, now, ticks, snapshot>>

\* ensure_valid_token returned True: the discovery request.
PollDiscover(p) ==
    /\ tasks[p].pc = "returned"
    /\ tasks[p].op = "poll"
    /\ StartRequest(p, "poll_discovery")
    /\ UNCHANGED <<config_data, expires_at, now, ticks, snapshot, polls>>

\* The discovery request has returned or raised: latest_devices is
\* assigned, then the status request is made for a non-empty list.
PollAfterDiscovery(p) ==
    /\ tasks[p].pc = "returned"
    /\ tasks[p].op = "poll_discovery"
    /\ IF last.result.kind = "raise"
       THEN PollEnd(p, PollRaised(last.result.error))
            /\ UNCHANGED latest_devices
       ELSE IF last.result.status # 200
       THEN PollEnd(p, [kind |-> "return", status |-> last.result.status,
                        error |-> ""])
            /\ UNCHANGED latest_devices
       ELSE \E body \in Bodies(DiscoveryLists) :
              IF ~body.json_ok
              THEN PollEnd(p, PollRaised("JSONDecodeError"))
                   /\ UNCHANGED latest_devices
              ELSE /\ latest_devices' =
                        [cycle |-> polls, devices |-> body.devices]
                   /\ IF body.devices = <<>>
                      THEN PollEnd(p, [kind |-> "return", status |-> 0,
                                       error |-> ""])
                      ELSE StartRequest(p, "poll_status")
    /\ UNCHANGED <<config_data, expires_at, now, ticks, polls,
                   latest_status, last_status_update>>

\* The status request has returned or raised: latest_status and
\* last_status_update are assigned from a 200 response.  The vendor answers
\* for the devices the request named, which are those of latest_devices
\* (one run of the job at a time, and no other writer).
PollAfterStatus(p) ==
    /\ tasks[p].pc = "returned"
    /\ tasks[p].op = "poll_status"
    /\ IF last.result.kind = "raise"
       THEN PollEnd(p, PollRaised(last.result.error))
            /\ UNCHANGED <<latest_status, last_status_update>>
       ELSE IF last.result.status # 200
       THEN PollEnd(p, [kind |-> "return", status |-> last.result.status,
                        error |-> ""])
            /\ UNCHANGED <<latest_status, last_status_update>>
       ELSE \E body \in Bodies({latest_devices.devices}) :
              IF ~body.json_ok
              THEN PollEnd(p, PollRaised("JSONDecodeError"))
                   /\ UNCHANGED <<latest_status, last_status_update>>
              ELSE /\ latest_status' =
                        [cycle |-> polls, devices |-> body.devices]
                   /\ last_status_update' = now
                   /\ PollEnd(p, [kind |-> "return", status |-> 0,
                                   error |-> ""])
    /\ UNCHANGED <<config_data, expires_at, now, ticks, polls,
                   latest_devices>>

\* ------------------------------------ UtecDataUpdateCoordinator (HA side)
DeviceIds == {"d1", "d2", "d3"}

\* A device of the discovery list, and one that carries no id.
Device(id) == [id |-> id, name |-> "name of " \o id]
DeviceWithoutId == [name |-> "unnamed"]

\* A record of a status response, describing device id.
StatusRecord(id) == [id |-> id, state |-> "state of " \o id]

\* The device lists /api/devices may answer with.
DeviceListChoices ==
    {<<>>, <<Device("d1")>>, <<Device("d1"), Device("d2")>>,
     <<Device("d2"), DeviceWithoutId>>,
     <<Device("d1"), Device("d2"), Device("d3")>>}

\* What GET /api/devices may give: an exception (a timeout included), JSON
\* without payload.devices, or JSON with a device list.
DevicesAnswers ==
    {[kind |-> k, device_list |-> <<>>] : k \in {"raise", "unexpected"}}
    \cup {[kind |-> "devices", device_list |-> l] : l \in DeviceListChoices}

\* What the POST /api/status for device may give: an exception, JSON
\* without payload.devices, or JSON whose payload.devices is empty, holds
\* the device's record, or holds another device's record first.
StatusOutcomes(device) ==
    {[kind |-> "raise", has_devices |-> FALSE, devices |-> <<>>],
     [kind |-> "json", has_devices |-> FALSE, devices |-> <<>>],
     [kind |-> "json", has_devices |-> TRUE, devices |-> <<>>]}
    \cup {[kind |-> "json", has_devices |-> TRUE,
           devices |-> <<StatusRecord(id)>>] : id \in DeviceIds}

\* `device.get("id")` is truthy
HasId(device) == "id" \in DOMAIN device /\ device.id # ""

\* dict.update: a copy of a with the items of b put over it
DictUpdate(a, b) ==
    [k \in DOMAIN a \cup DOMAIN b |-> IF k \in DOMAIN b THEN b[k] ELSE a[k]]

\* devices[key] = value
DictPut(d, key, value) ==
    [k \in DOMAIN d \cup {key} |-> IF k = key THEN value ELSE d[k]]

\* The entry stored for a device with an id: the device's own fields,
\* with the first record of the status response put over them, or the
\* device alone when the lookup raised or gave no record.
DeviceEntry(device, status) ==
    IF status.kind = "raise" THEN device
    ELSE IF status.has_devices /\ status.devices # <<>>
    THEN DictUpdate(device, status.devices[1])
    ELSE device

RECURSIVE MergeDevices_DropsFailed(_, _, _)
MergeDevices_DropsFailed(device_list, statuses, devices) ==
    IF device_list = <<>> THEN devices
    ELSE LET device == Head(device_list) IN
         MergeDevices_DropsFailed(Tail(device_list), Tail(statuses),
             IF HasId(device) /\ Head(statuses).kind # "raise"
             THEN DictPut(devices, device.id,
                          DeviceEntry(device, Head(statuses)))
             ELSE devices)

\* The loop of _async_update_data over device_list, statuses[i] being what
\* the status lookup of the i-th device gives (none is made for a device
\* without id).
RECURSIVE MergeDevices(_, _, _)
MergeDevices(device_list, statuses, devices) ==
    IF device_list = <<>> THEN devices
    ELSE LET device == Head(device_list) IN
         MergeDevices(Tail(device_list), Tail(statuses),
             IF HasId(device)
             THEN DictPut(devices, device.id,
                          DeviceEntry(device, Head(statuses)))
             ELSE devices)

\* What the gateway may answer to the coordinator's POST /api/lock or
\* /api/unlock: a reply with a status, or the request fails or times out.
CommandAnswers ==
    {[kind |-> "http", status |-> s, error |-> ""] :
        s \in {200, 400, 401, 500}}
    \cup {[kind |-> "raise", status |-> 0, error |-> e] :
          e \in {"TimeoutError", "ClientConnectorError"}}

\* `except Exception as err` of the coordinator's async_lock and
\* async_unlock: the timeout of async_timeout and the client's errors
\* derive from Exception.
CaughtByCommand(e) == e \in {"TimeoutError", "ClientConnectorError"}

CommandSucceeded_AnyReply(answer) == answer.kind = "http"

\* `success = response.status == 200`, and False from `except Exception`
CommandSucceeded(answer) == answer.kind = "http" /\ answer.status = 200

\* The lock entity's async_lock or async_unlock: the coordinator's
\* command, then a refresh request when the command returned True.
EntityCommand ==
    /\ \E command \in {"async_lock", "async_unlock"},
          answer \in CommandAnswers :
          LET success == CommandSucceeded(answer) IN
          IF answer.kind = "raise" /\ ~CaughtByCommand(answer.error)
          THEN last' = [NoObservation EXCEPT
                           !.task = "lock_entity", !.call = command,
                           !.outcome = answer,
                           !.result = [kind |-> "raise", status |-> 0,
                                       error |-> answer.error]]
          ELSE last' = [NoObservation EXCEPT
                           !.task = "lock_entity", !.call = command,
                           !.outcome = answer,
                           !.success = Bool(success),
                           !.refresh_requested = Bool(success),
                           !.result = [kind |-> "return", status |-> 0,
                                       error |-> ""]]
    /\ UNCHANGED <<config_data, expires_at, now, ticks, exchanges, tasks,
                   data>>

\* One refresh of the coordinator: _async_update_data raises UpdateFailed
\* (the coordinator keeps its data), or returns the merged dictionary,
\* which becomes the coordinator's data.
CoordinatorUpdate ==
    /\ \E answer \in DevicesAnswers :
        IF answer.kind = "raise"
        THEN /\ data' = data
             /\ last' = [NoObservation EXCEPT
                             !.task = "coordinator",
                             !.call = "_async_update_data",
                             !.result = [kind |-> "raise", status |-> 0,
                                         error |-> "UpdateFailed"]]
        ELSE LET device_list == answer.device_list IN
             \E statuses \in
                   {o \in [1..Len(device_list) ->
                              UNION {StatusOutcomes(d) : d \in DeviceIds}] :
                       \A i \in 1..Len(device_list) :
                           o[i] \in StatusOutcomes(device_list[i])} :
                /\ data' = MergeDevices(device_list, statuses, EmptyDict)
                /\ last' = [NoObservation EXCEPT
                                !.task = "coordinator",
                                !.call = "_async_update_data",
                                !.device_list = device_list,
                                !.statuses = statuses,
                                !.result = [kind |-> "return", status |-> 0,
                                            error |-> ""]]
    /\ UNCHANGED <<config_data, expires_at, now, ticks, exchanges, tasks>>

ApplyConfigUpdate_ReplacesAll(cfg, config) ==
    [f \in DOMAIN cfg |->
        IF f \in DOMAIN config THEN config[f] ELSE DefaultConfig[f]]

\* The loop of update_config over the fields the request body sets: a
\* body is a record of the fields it sets to a value other than null.
ApplyConfigUpdate(cfg, config) ==
    [f \in DOMAIN cfg |-> IF f \in DOMAIN config THEN config[f] ELSE cfg[f]]

UpdateConfigWith_NoReschedule(config) ==
    /\ config_data' = ApplyConfigUpdate(config_data, config)
    /\ scheduler' = scheduler
    /\ last' = [NoObservation EXCEPT
                    !.call = "update_config", !.saves = <<"ok">>]
    /\ UNCHANGED <<expires_at, now, ticks, exchanges, tasks>>

\* POST /api/config with body config: the fields are stored and saved (the
\* save succeeds) and, when the body sets status_poll_interval, the
\* status_poll job is rescheduled.
UpdateConfigWith(config) ==
    /\ config_data' = ApplyConfigUpdate(config_data, config)
    /\ scheduler' =
          IF "status_poll_interval" \in DOMAIN config
          THEN [scheduler EXCEPT
                   !.status_poll = IntervalTrigger(config.status_poll_interval)]
          ELSE scheduler
    /\ last' = [NoObservation EXCEPT
                    !.call = "update_config", !.saves = <<"ok">>]
    /\ UNCHANGED <<expires_at, now, ticks, exchanges, tasks>>

\* POST /api/config: the fields of the update that the token operations
\* read.
UpdateConfig ==
    \E auto \in BOOLEAN,
       buffer \in BufferChoices \cup {config_data.refresh_buffer_minutes} :
        UpdateConfigWith([auto_refresh_enabled |-> auto,
                          refresh_buffer_minutes |-> buffer])

\* The value a body of POST /api/config gives to field f, when it sets it.
ConfigValue(f) ==
    CASE f = "auto_refresh_enabled" -> FALSE
      [] f = "refresh_buffer_minutes" -> 0
      [] f = "status_poll_interval" -> 30
      [] f = "access_key" -> "K1"
      [] f = "secret_key" -> "S1"

\* The sets of fields a body of POST /api/config sets.
ConfigBodies ==
    {{"status_poll_interval"},
     {"refresh_buffer_minutes", "access_key", "secret_key"}}

\* POST /api/config with any of these bodies.
UpdateConfigAny ==
    \E fields \in ConfigBodies :
        UpdateConfigWith([f \in fields |-> ConfigValue(f)])

\* `"***" if safe_config.get(f) else ""`
Mask(value) == IF value # "" THEN "***" ELSE ""

\* The fields get_config masks.
MaskedFields == {"secret_key", "access_token", "refresh_token"}

TokenStatus(cfg, t) ==
    LET expiration == GetTokenExpiration(cfg) IN
    [has_token |-> cfg.access_token # "",
     has_refresh_token |-> cfg.refresh_token # "",
     expires_at |-> IF expiration = None THEN None
                    ELSE IsoFormat(expiration),
     is_expired |-> IsTokenExpired(cfg, t),
     time_until_expiry |-> IF expiration = None THEN None
                           ELSE [seconds |-> expiration.ts - t]]

GetConfigBody_AccessTokenInClear(cfg, t) ==
    [f \in DOMAIN cfg \cup {"token_status"} |->
        IF f = "token_status" THEN TokenStatus(cfg, t)
        ELSE IF f \in MaskedFields \ {"access_token"} THEN Mask(cfg[f])
        ELSE cfg[f]]

\* What GET /api/config returns: a copy of config_data with the three
\* secrets masked, and the token status.
GetConfigBody(cfg, t) ==
    [f \in DOMAIN cfg \cup {"token_status"} |->
        IF f = "token_status" THEN TokenStatus(cfg, t)
        ELSE IF f \in MaskedFields THEN Mask(cfg[f])
        ELSE cfg[f]]

\* GET /api/config
GetConfig ==
    /\ last' = [NoObservation EXCEPT
                    !.call = "get_config",
                    !.body = GetConfigBody(config_data, now)]
    /\ UNCHANGED <<config_data, expires_at, now, ticks, exchanges, tasks>>

\* The gateway process is started again: the module's globals are set,
\* startup_event loads the configuration file and adds the two jobs.
\* Whatever was in flight is gone.
Restart ==
    /\ config_data' = LoadConfig(DefaultConfig, config_file)
    /\ expires_at' = GetTokenExpiration(config_data')
    /\ tasks' = [p \in Procs |-> IdleTask]
    /\ latest_devices' = NoDevices
    /\ latest_status' = NoStatus
    /\ last_status_update' = 0
    /\ scheduler' =
         [token_refresh |->
              IntervalTrigger(TimedeltaMinutes(TokenCheckMinutes)),
          status_poll |->
              IntervalTrigger(config_data'.status_poll_interval)]
    /\ last' = [NoObservation EXCEPT !.call = "startup_event"]
    /\ UNCHANGED <<now, ticks, exchanges, polls, data, config_file>>

\* Wall-clock time passes.
Tick ==
    /\ ticks < MaxTicks
    /\ \E d \in TimeSteps : now' = now + d
    /\ ticks' = ticks + 1
    /\ last' = NoObservation
    /\ UNCHANGED <<config_data, expires_at, exchanges, tasks>>

\* The token-health job and one HTTP handler, with the clock and the
\* configuration endpoint.
Next ==
    \/ \E p \in Serial : MakeAuthenticatedRequest(p) /\ UNCHANGED <<trail, others>>
    \/ \E p \in Serial : TokenResponse(p) /\ UNCHANGED <<trail, others>>
    \/ \E p \in Serial : ApiResponse(p) /\ UNCHANGED <<trail, others>>
    \/ \E p \in Serial : SleepDone(p) /\ UNCHANGED <<trail, others>>
    \/ \E p \in Serial : ScheduledTokenCheck(p) /\ UNCHANGED <<trail, others>>
    \/ \E p \in Serial : ManualRefreshToken(p) /\ UNCHANGED <<trail, others>>
    \/ UpdateConfig /\ UNCHANGED <<trail, others>>
    \/ Tick /\ UNCHANGED <<trail, others>>

Spec == Init /\ [][Next]_vars

\* Two HTTP handlers in flight at once.
NextCallers ==
    \/ \E p \in Handlers : MakeAuthenticatedRequest(p) /\ UNCHANGED <<trail, others>>
    \/ \E p \in Handlers : TokenResponse(p) /\ UNCHANGED <<trail, others>>
    \/ \E p \in Handlers : ApiResponse(p) /\ UNCHANGED <<trail, others>>
    \/ \E p \in Handlers : SleepDone(p) /\ UNCHANGED <<trail, others>>
    \/ \E p \in Handlers : ManualRefreshToken(p) /\ UNCHANGED <<trail, others>>

SpecCallers == Init /\ [][NextCallers]_vars

\* The sends of a request, one entry per answered send: the Authorization
\* the send carried, what it got, whether the answer made the loop call
\* refresh_access_token (with what that call returned and the access token
\* it left in config_data) and the backoff the loop then asked for.
Record(p) ==
    trail' = [trail EXCEPT ![p] =
        IF last'.task = p /\ last'.call = "make_authenticated_request"
        THEN <<>>
        ELSE IF last'.task = p /\ last'.call = "send"
        THEN Append(trail[p],
                    [authorization |-> tasks[p].authorization,
                     outcome |-> last'.outcome,
                     reauth |-> last'.site = "on_401",
                     reauth_ret |-> last'.refresh_ret,
                     refreshed |-> "",
                     delay |-> last'.delay])
        ELSE IF /\ last'.task = p /\ last'.call = "refresh_access_token"
                /\ last'.site = "on_401"
        THEN [trail[p] EXCEPT
                 ![Len(trail[p])].reauth_ret = last'.refresh_ret,
                 ![Len(trail[p])].refreshed = config_data'.access_token]
        ELSE trail[p]]

\* One HTTP handler making requests, with the history of each request's
\* sends, next to the configuration endpoint.
NextRequest ==
    \/ \E p \in Serial : MakeAuthenticatedRequest(p) /\ Record(p) /\ UNCHANGED others
    \/ \E p \in Serial : TokenResponse(p) /\ Record(p) /\ UNCHANGED others
    \/ \E p \in Serial : ApiResponse(p) /\ Record(p) /\ UNCHANGED others
    \/ \E p \in Serial : SleepDone(p) /\ Record(p) /\ UNCHANGED others
    \/ UpdateConfig /\ UNCHANGED <<trail, others>>

SpecRequest == Init /\ [][NextRequest]_vars

\* The authorization-code exchange followed by requests.
NextExchange ==
    \/ \E p \in Serial : ExchangeCode(p) /\ UNCHANGED <<trail, others>>
    \/ \E p \in Serial : ExchangeResponse(p) /\ UNCHANGED <<trail, others>>
    \/ \E p \in Serial : MakeAuthenticatedRequest(p) /\ UNCHANGED <<trail, others>>
    \/ \E p \in Serial : TokenResponse(p) /\ UNCHANGED <<trail, others>>
    \/ \E p \in Serial : ApiResponse(p) /\ UNCHANGED <<trail, others>>
    \/ \E p \in Serial : SleepDone(p) /\ UNCHANGED <<trail, others>>
    \/ UpdateConfig /\ UNCHANGED <<trail, others>>
    \/ Tick /\ UNCHANGED <<trail, others>>

SpecExchange == Init /\ [][NextExchange]_vars

\* A task is inside a run of the event loop (between two model steps that
\* the code takes without suspending): no other task runs.
InStep == \E q \in Procs : tasks[q].pc = "returned"

\* The status_poll job with the clock.
NextPoll ==
    \/ \E p \in Procs : PollDeviceStatus(p) /\ UNCHANGED <<trail, scheduler, data, config_file>>
    \/ \E p \in Procs : PollDiscover(p) /\ UNCHANGED <<trail, scheduler, data, config_file>>
    \/ \E p \in Procs : PollAfterDiscovery(p) /\ UNCHANGED <<trail, scheduler, data, config_file>>
    \/ \E p \in Procs : PollAfterStatus(p) /\ UNCHANGED <<trail, scheduler, data, config_file>>
    \/ \E p \in Procs : TokenResponse(p) /\ UNCHANGED <<trail, others>>
    \/ \E p \in Procs : ApiResponse(p) /\ UNCHANGED <<trail, others>>
    \/ \E p \in Procs : SleepDone(p) /\ UNCHANGED <<trail, others>>
    \/ ~InStep /\ Tick /\ UNCHANGED <<trail, others>>

SpecPoll == Init /\ [][NextPoll]_vars

\* The configuration endpoint next to the operations it may meet in
\* flight: a handler's request, the token-health job and the
\* authorization-code exchange.
NextSettings ==
    \/ UpdateConfigAny
          /\ UNCHANGED <<trail, snapshot, polls, data, config_file>>
    \/ \E p \in Procs : ExchangeCode(p) /\ UNCHANGED <<trail, others>>
    \/ \E p \in Procs : ExchangeResponse(p) /\ UNCHANGED <<trail, others>>
    \/ \E p \in Serial : MakeAuthenticatedRequest(p) /\ UNCHANGED <<trail, others>>
    \/ \E p \in Procs : ScheduledTokenCheck(p) /\ UNCHANGED <<trail, others>>
    \/ \E p \in Procs : TokenResponse(p) /\ UNCHANGED <<trail, others>>
    \/ \E p \in Procs : ApiResponse(p) /\ UNCHANGED <<trail, others>>
    \/ \E p \in Procs : SleepDone(p) /\ UNCHANGED <<trail, others>>

SpecSettings == Init /\ [][NextSettings]_vars

\* What the saves of a step leave in the configuration file.
Written ==
    config_file' = SaveAll(config_file, config_data', last'.saves).file

\* The operations that store tokens, with a configuration file whose
\* writes can fail, and restarts of the process.
NextPersist ==
    \/ \E p \in Serial : ManualRefreshToken(p) /\ UNCHANGED <<trail, others>>
    \/ \E p \in Serial : TokenResponseSaving(p, SaveOutcomes) /\ Written
          /\ UNCHANGED <<trail, snapshot, polls, scheduler, data>>
    \/ \E p \in Serial : ExchangeCode(p) /\ UNCHANGED <<trail, others>>
    \/ \E p \in Serial : ExchangeResponseSaving(p, SaveOutcomes) /\ Written
          /\ UNCHANGED <<trail, snapshot, polls, scheduler, data>>
    \/ Restart /\ UNCHANGED trail
    \/ Tick /\ UNCHANGED <<trail, others>>

SpecPersist == Init /\ [][NextPersist]_vars

\* make_authenticated_request called with any method.
NextMethods ==
    \/ \E p \in Serial : MakeRequestWithMethod(p) /\ UNCHANGED <<trail, others>>
    \/ \E p \in Serial : TokenResponse(p) /\ UNCHANGED <<trail, others>>
    \/ \E p \in Serial : ApiResponse(p) /\ UNCHANGED <<trail, others>>
    \/ \E p \in Serial : SleepDone(p) /\ UNCHANGED <<trail, others>>
    \/ Tick /\ UNCHANGED <<trail, others>>

SpecMethods == Init /\ [][NextMethods]_vars

\* The configuration read endpoint next to the operations that change
\* config_data.
NextReadConfig ==
    \/ GetConfig /\ UNCHANGED <<trail, others>>
    \/ UpdateConfigAny
          /\ UNCHANGED <<trail, snapshot, polls, data, config_file>>
    \/ \E p \in Serial : ExchangeCode(p) /\ UNCHANGED <<trail, others>>
    \/ \E p \in Serial : ExchangeResponse(p) /\ UNCHANGED <<trail, others>>
    \/ \E p \in Serial : ManualRefreshToken(p) /\ UNCHANGED <<trail, others>>
    \/ \E p \in Serial : TokenResponse(p) /\ UNCHANGED <<trail, others>>
    \/ Tick /\ UNCHANGED <<trail, others>>

SpecReadConfig == Init /\ [][NextReadConfig]_vars

\* The on-demand handlers with the clock.
NextOnDemand ==
    \/ \E p \in Serial : ~InStep /\ OnDemand(p) /\ UNCHANGED <<trail, others>>
    \/ \E p \in Serial : OnDemandAnswer(p) /\ UNCHANGED <<trail, others>>
    \/ \E p \in Serial : ~InStep /\ TokenResponse(p) /\ UNCHANGED <<trail, others>>
    \/ \E p \in Serial : ~InStep /\ ApiResponse(p) /\ UNCHANGED <<trail, others>>
    \/ \E p \in Serial : ~InStep /\ SleepDone(p) /\ UNCHANGED <<trail, others>>
    \/ ~InStep /\ Tick /\ UNCHANGED <<trail, others>>

SpecOnDemand == Init /\ [][NextOnDemand]_vars

\* The Home Assistant coordinator refreshing from the gateway.
NextCoordinator ==
    \/ CoordinatorUpdate
          /\ UNCHANGED <<trail, snapshot, polls, scheduler, config_file>>
    \/ EntityCommand
          /\ UNCHANGED <<trail, snapshot, polls, scheduler, config_file>>

SpecCoordinator == Init /\ [][NextCoordinator]_vars

\* ---------------------------------------------------------------- claims
Credential(cfg) ==
    <<cfg.access_token, cfg.refresh_token, cfg.token_expires_at>>

\* C1: two ensure_valid_token callers that are in a refresh at the same
\* time share one refresh-token exchange (exactly one is sent for them).
C1_ConcurrentCallersShareOneExchange ==
    \A p, q \in Procs :
        (/\ tasks[p].pc = "refresh_await" /\ tasks[p].site = "ensure_valid"
         /\ tasks[q].pc = "refresh_await" /\ tasks[q].site = "ensure_valid")
        => tasks[p].xid = tasks[q].xid

\* C2: at most one refresh-token exchange is in flight, whichever call
\* site sent it.
C2_AtMostOneRefreshInFlight ==
    Cardinality({p \in Procs : tasks[p].pc = "refresh_await"}) <= 1

\* C3: is_token_expired() is true exactly when no expires_at is recorded or
\* now + refresh_buffer >= expires_at.
C3_IsExpiredIffUnsetOrWithinBuffer ==
    IsTokenExpired(config_data, now)
        <=> (\/ expires_at = None
             \/ now + 60 * config_data.refresh_buffer_minutes >= expires_at.ts)

C3_Witness ==
    /\ expires_at # None
    /\ now + 60 * config_data.refresh_buffer_minutes = expires_at.ts
    /\ now > 0
    /\ IsTokenExpired(config_data, now)

\* C4 as stated: whenever is_token_expired() is false, ensure_valid_token
\* returns true, sends nothing and changes no credential field, whatever
\* the access token is.
C4_NotExpiredReturnsTrue ==
    [][last'.expired_at_call = "False"
        => /\ last'.ensure_ret = "True"
           /\ exchanges' = exchanges
           /\ config_data' = config_data]_vars

\* C4 amended: whenever is_token_expired() is false, ensure_valid_token
\* sends nothing and changes no credential field, and it returns true when
\* the access token is non-empty and false when it is empty.
C4_NotExpiredReturnsWhetherTokenPresent ==
    [][last'.expired_at_call = "False"
        => /\ last'.ensure_ret = Bool(config_data.access_token # "")
           /\ exchanges' = exchanges
           /\ config_data' = config_data]_vars

C4_Witness ==
    /\ last.expired_at_call = "False"
    /\ last.ensure_ret = "True"
    /\ config_data.access_token # ""

\* Whether the ensure_valid_token call of the latest step invoked
\* refresh_access_token and handed its value back.
RefreshInvokedAndReturned ==
    \/ /\ tasks[last.task].pc = "refresh_await"
       /\ tasks[last.task].site = "ensure_valid"
    \/ /\ last.refresh_ret # "none"
       /\ last.ensure_ret = last.refresh_ret

\* C5 as stated: whenever is_token_expired() is true, ensure_valid_token
\* invokes refresh_access_token and returns exactly its value.
C5_ExpiredAlwaysRefreshes ==
    /\ last.expired_at_call = "True" => RefreshInvokedAndReturned
    /\ (last.call = "refresh_access_token" /\ last.ensure_ret # "none")
            => last.ensure_ret = last.refresh_ret

\* C5 amended: whenever is_token_expired() is true and the access token is
\* non-empty, ensure_valid_token invokes refresh_access_token and returns
\* exactly its value; with an empty access token it returns false without
\* invoking refresh_access_token.
C5_ExpiredWithTokenRefreshes ==
    /\ (last.expired_at_call = "True" /\ config_data.access_token # "")
            => RefreshInvokedAndReturned
    /\ (last.expired_at_call = "True" /\ config_data.access_token = "")
            => (last.ensure_ret = "False" /\ last.refresh_ret = "none")
    /\ (last.call = "refresh_access_token" /\ last.ensure_ret # "none")
            => last.ensure_ret = last.refresh_ret

C5_Witness ==
    /\ last.call = "refresh_access_token"
    /\ last.ensure_ret = "True"
    /\ last.refresh_ret = "True"

\* C6: with an empty access token, no expires_at and no refresh token,
\* ensure_valid_token returns false and no exchange is sent.
C6_NothingConfiguredReturnsFalse ==
    [][(/\ last'.call = "make_authenticated_request"
        /\ config_data.access_token = ""
        /\ config_data.token_expires_at = None
        /\ config_data.refresh_token = "")
        => /\ last'.ensure_ret = "False"
           /\ exchanges' = exchanges
           /\ tasks'[last'.task].pc = "idle"]_vars

C6_Witness ==
    /\ last.call = "make_authenticated_request"
    /\ config_data.access_token = ""
    /\ config_data.token_expires_at = None
    /\ config_data.refresh_token = ""
    /\ last.ensure_ret = "False"
    /\ last.result.error = "TokenRefreshError"

\* C7: whenever refresh_access_token returns false, the access token, the
\* refresh token and expires_at equal their values before the call.
C7_FailedRefreshLeavesCredential ==
    [][last'.refresh_ret = "False"
        => Credential(config_data') = Credential(config_data)]_vars

\* C8: on an HTTP 200 refresh response the stored access token becomes the
\* response's, and the stored refresh token becomes the response's when one
\* is supplied and is left unchanged when none is.
C8_TokensFollowResponse ==
    [][(last'.call = "refresh_access_token" /\ last'.response.status = 200)
        => /\ last'.response.has_access_token
                => config_data'.access_token = last'.response.access_token
           /\ config_data'.refresh_token =
                IF last'.response.has_refresh_token
                THEN last'.response.refresh_token
                ELSE config_data.refresh_token]_vars

C8_Witness ==
    /\ last.call = "refresh_access_token"
    /\ last.response.status = 200
    /\ last.response.has_access_token
    /\ ~last.response.has_refresh_token
    /\ config_data.access_token = last.response.access_token
    /\ config_data.refresh_token # ""

Lifetime(response) ==
    IF response.has_expires_in THEN response.expires_in ELSE 3600

\* C10 as stated: right after refresh_access_token returns true the access
\* token is non-empty and is_token_expired() is false, so the next
\* ensure_valid_token returns true without a network call.
C10_RefreshedTokenIsValid ==
    last.refresh_ret = "True"
        => /\ config_data.access_token # ""
           /\ ~IsTokenExpired(config_data, now)
           /\ EnsureValidBranch(config_data, now) = "valid"

\* C10 amended: right after refresh_access_token returns true on a response
\* that supplies an access token and whose lifetime (expires_in, or 3600 s
\* when absent) is longer than the refresh buffer, the access token is
\* non-empty and is_token_expired() is false, so the next
\* ensure_valid_token returns true without a network call.
C10_RefreshedTokenIsValidBeyondBuffer ==
    (/\ last.refresh_ret = "True"
     /\ last.response.has_access_token
     /\ Lifetime(last.response) > 60 * config_data.refresh_buffer_minutes)
        => /\ config_data.access_token # ""
           /\ ~IsTokenExpired(config_data, now)
           /\ EnsureValidBranch(config_data, now) = "valid"

C10_Witness ==
    /\ last.refresh_ret = "True"
    /\ last.response.has_access_token
    /\ config_data.refresh_buffer_minutes > 0
    /\ Lifetime(last.response) > 60 * config_data.refresh_buffer_minutes
    /\ ~IsTokenExpired(config_data, now)

\* C11: right after exchange_code succeeds the token is valid: is_token_expired
\* is false and ensure_valid_token would return true without a network
\* call, whether or not the vendor's response carries expires_in (stated
\* for a response that carries an access token and, when it carries
\* expires_in, a lifetime longer than the refresh buffer).
C11_ExchangedTokenIsValid ==
    (/\ last.call = "exchange_code"
     /\ last.result.status = 200
     /\ last.response.has_access_token
     /\ last.response.has_expires_in
            => last.response.expires_in
                 > TimedeltaMinutes(config_data.refresh_buffer_minutes))
        => /\ ~IsTokenExpired(config_data, now)
           /\ EnsureValidBranch(config_data, now) = "valid"

\* C12: a failed refresh leaves no permanent failure state: after
\* ensure_valid_token's refresh has failed, a later ensure_valid_token made
\* while the token is still expired attempts the refresh again.
C12_FailedRefreshIsRetried ==
    (/\ last.call = "refresh_access_token"
     /\ last.site = "ensure_valid"
     /\ last.refresh_ret = "False"
     /\ IsTokenExpired(config_data, now))
        => /\ EnsureValidBranch(config_data, now) = "refresh"
           /\ config_data.refresh_token # ""

\* C13: when ensure_valid_token returns false at the start of
\* make_authenticated_request, the call raises TokenRefreshError and sends
\* nothing to the device API.
C13_NoValidTokenNoSend ==
    last.ensure_ret = "False"
        => /\ last.result = [kind |-> "raise", status |-> 0,
                              error |-> "TokenRefreshError"]
           /\ tasks[last.task] = IdleTask

C13_Witness ==
    /\ last.ensure_ret = "False"
    /\ last.call = "refresh_access_token"
    /\ last.response.kind = "http"

\* ------------------------------------------------ claims on the request loop
Is401(e) == e.outcome.kind = "http" /\ e.outcome.status = 401

Reauths(t) == {i \in 1..Len(t) : t[i].reauth}

\* C14: when the first send is answered 401 and the second 200, the call
\* returns the 200 after exactly one forced refresh (made whatever
\* is_token_expired says) and exactly two sends, the second carrying the
\* access token the refresh stored.
C14_One401ThenSuccess ==
    \A p \in Handlers :
        LET t == trail[p] IN
        /\ (Len(t) >= 1 /\ Is401(t[1])) => t[1].reauth
        /\ (Len(t) >= 2 /\ Is401(t[1]))
              => /\ t[1].reauth_ret = "True"
                 /\ t[2].authorization = t[1].refreshed
        /\ (Len(t) >= 2 /\ Is401(t[1]) /\ t[2].outcome.status = 200)
              => /\ Len(t) = 2
                 /\ Reauths(t) = {1}
                 /\ tasks[p] = IdleTask
                 /\ (last.task = p /\ last.call = "send")
                       => last.result = t[2].outcome

C14_Witness ==
    LET t == trail["h1"] IN
    /\ Len(t) = 2
    /\ Is401(t[1])
    /\ t[2].outcome.status = 200
    /\ t[1].refreshed # t[1].authorization
    /\ last.task = "h1" /\ last.call = "send"

\* C15: when a send is answered 401 and the forced refresh fails, the call
\* returns that 401 and makes no further send and no further refresh,
\* even when attempts remain.
C15_FailedReauthReturns401 ==
    \A p \in Handlers :
        LET t == trail[p] IN
        \A i \in 1..Len(t) :
            (t[i].reauth /\ t[i].reauth_ret = "False")
                => /\ i = Len(t)
                   /\ Is401(t[i])
                   /\ tasks[p] = IdleTask
                   /\ (last.task = p /\ last.site = "on_401")
                         => last.result = t[i].outcome

C15_Witness ==
    LET t == trail["h1"] IN
    /\ Len(t) = 1
    /\ t[1].reauth /\ t[1].reauth_ret = "False"
    /\ last.task = "h1" /\ last.call = "refresh_access_token"
    /\ last.response.kind = "http"

AllTimeouts(t) ==
    \A i \in 1..Len(t) : t[i].outcome.error = "TimeoutException"

\* C16: when every send times out, the call makes exactly max_retries + 1
\* sends, asks for a wait of 2^attempt after the failed attempt number
\* attempt (counted from 0) for every attempt below max_retries and for no
\* wait after the last, and then raises the timeout.
C16_TimeoutsBackOffThenRaise ==
    \A p \in Handlers :
        LET t == trail[p] IN
        AllTimeouts(t)
            => /\ Len(t) <= max_retries + 1
               /\ \A i \in 1..Len(t) :
                     /\ ~t[i].reauth
                     /\ t[i].delay = IF i <= max_retries THEN 2 ^ (i - 1)
                                     ELSE 0
               /\ (Len(t) \in 1..max_retries)
                     => tasks[p].pc \in {"sleep", "send_await"}
               /\ (Len(t) = max_retries + 1)
                     => /\ tasks[p] = IdleTask
                        /\ (last.task = p /\ last.call = "send")
                              => last.result = t[Len(t)].outcome

C16_Witness ==
    LET t == trail["h1"] IN
    /\ Len(t) = max_retries + 1
    /\ AllTimeouts(t)
    /\ last.task = "h1"
    /\ last.result.kind = "raise"

\* C17: a response whose status is not 401 is returned unchanged right
\* after that send: no retry, no backoff, no refresh.
C17_Non401ReturnedAtOnce ==
    \A p \in Handlers :
        LET t == trail[p] IN
        \A i \in 1..Len(t) :
            (t[i].outcome.kind = "http" /\ t[i].outcome.status # 401)
                => /\ i = Len(t)
                   /\ ~t[i].reauth
                   /\ t[i].delay = 0
                   /\ tasks[p] = IdleTask
                   /\ (last.task = p /\ last.call = "send")
                         => last.result = t[i].outcome

C17_Witness ==
    LET t == trail["h1"] IN
    /\ Len(t) = 1
    /\ t[1].outcome.kind = "http" /\ t[1].outcome.status = 500
    /\ last.task = "h1" /\ last.call = "send"

\* C18: every send carries the access token that config_data holds at the
\* moment of that send (so a retry after a backoff uses the token another
\* task stored meanwhile).
C18_SendCarriesStoredToken ==
    \A p \in Handlers :
        (last.task = p /\ tasks[p].pc = "send_await")
            => tasks[p].authorization = config_data.access_token

\* C19 as stated: one call makes at most one 401-triggered refresh.
C19_AtMostOneReauth ==
    \A p \in Handlers : Cardinality(Reauths(trail[p])) <= 1

\* C19: one call makes at most max_retries 401-triggered refreshes, one
\* after each 401 answered to an attempt below max_retries.
C19_AtMostMaxRetriesReauths ==
    \A p \in Handlers :
        /\ Cardinality(Reauths(trail[p])) <= max_retries
        /\ \A i \in 1..Len(trail[p]) :
              trail[p][i].reauth <=> (Is401(trail[p][i]) /\ i <= max_retries)

C19_Witness ==
    Cardinality(Reauths(trail["h1"])) = max_retries

\* The steps a request has left at most, by its position in the loop.
Rank(tk) ==
    CASE tk.pc = "idle" -> 0
      [] tk.pc = "refresh_await" /\ tk.site = "ensure_valid" ->
            3 * (max_retries + 1)
      [] tk.pc = "send_await" -> 3 * (max_retries - tk.attempt) + 2
      [] OTHER -> 3 * (max_retries - tk.attempt) + 1

\* C20: every call of make_authenticated_request terminates after at most
\* max_retries + 1 sends: each step of the call ends it or brings it
\* strictly closer to its end, and the sends never exceed max_retries + 1.
C20_CallTerminatesWithinBudget ==
    [][\A p \in Handlers :
          /\ (tasks[p].op = "request" /\ tasks'[p] # tasks[p])
                => Rank(tasks'[p]) < Rank(tasks[p])
          /\ Len(trail'[p])
                + (IF tasks'[p].pc = "send_await" THEN 1 ELSE 0)
                <= max_retries + 1]_vars

C20_Witness ==
    /\ Len(trail["h1"]) = max_retries + 1
    /\ tasks["h1"] = IdleTask
    /\ last.task = "h1"

\* C21: with auto_refresh_enabled false a run of scheduled_token_check is a
\* no-op: it posts no exchange and leaves the configuration, the credential
\* included, as it was, also when the token is expired.
C21_DisabledTokenCheckIsNoOp ==
    [][(/\ last'.task = "health"
        /\ last'.call = "scheduled_token_check"
        /\ ~config_data.auto_refresh_enabled)
          => /\ exchanges' = exchanges
             /\ config_data' = config_data
             /\ tasks'["health"] = IdleTask]_vars

C21_Witness ==
    /\ last.task = "health"
    /\ last.call = "scheduled_token_check"
    /\ ~config_data.auto_refresh_enabled
    /\ IsTokenExpired(config_data, now)
    /\ config_data.refresh_token # ""
    /\ tasks["health"] = IdleTask

\* ------------------------------------------------- claims on the poll job
\* The latest step ended a run of poll_device_status.
PollEnded ==
    /\ last.task = "poll"
    /\ tasks["poll"] = IdleTask
    /\ last.result.kind \in {"return", "raise"}

PollFailed ==
    PollEnded /\ last.result # [kind |-> "return", status |-> 0, error |-> ""]

PollSucceeded ==
    PollEnded /\ last.result = [kind |-> "return", status |-> 0, error |-> ""]

\* C22: when a poll cycle fails at any step, latest_devices and
\* latest_status (with last_status_update, stored together with it) are
\* what they were before the cycle: neither was stored by this cycle.
C22_FailedPollKeepsSnapshot ==
    PollFailed => /\ latest_devices.cycle # polls
                  /\ latest_status.cycle # polls

\* C23: poll_device_status never raises to the scheduler: whatever fails,
\* ensure_valid_token, the request or the parsing of a response, the run
\* returns normally.
C23_PollNeverRaises ==
    PollEnded => last.result.kind = "return"

C23_Witness ==
    /\ PollEnded
    /\ last.result = [kind |-> "return", status |-> 0,
                      error |-> "TokenRefreshError"]

\* C24: wherever another task can run during a poll cycle, latest_devices
\* and latest_status were stored by the same poll cycle.
C24_SnapshotCommitIsAtomic ==
    tasks["poll"].pc \in {"refresh_await", "send_await", "sleep"}
        => latest_devices.cycle = latest_status.cycle

\* C27: after a successful poll cycle the cached status describes exactly
\* the devices of that cycle's discovery, an empty discovery included.
C27_SuccessfulPollReplacesSnapshot ==
    PollSucceeded => /\ latest_devices.cycle = polls
                     /\ latest_status.devices = latest_devices.devices

\* ---------------------------------------------- claims on the coordinator
\* The latest step was an update of the coordinator that succeeded.
Updated ==
    last.call = "_async_update_data" /\ last.result.kind = "return"

\* The status lookup raised or gave no record.
WithoutStatus(status) ==
    status.kind = "raise" \/ ~status.has_devices \/ status.devices = <<>>

\* C25 as stated: after a successful update every discovered device is a
\* key of the merged snapshot (n discovered devices give n entries), and a
\* device whose status lookup failed or gave nothing keeps its
\* discovery-only fields.
C25_EveryDiscoveredDeviceIsAKey ==
    Updated
        => /\ Cardinality(DOMAIN data) = Len(last.device_list)
           /\ \A i \in 1..Len(last.device_list) :
                 (HasId(last.device_list[i])
                  /\ WithoutStatus(last.statuses[i]))
                    => data[last.device_list[i].id] = last.device_list[i]

\* C25: after a successful update the keys of the merged snapshot are the
\* ids of the discovered devices that carry an id, and a device whose
\* status lookup failed or gave nothing keeps its discovery-only fields.
C25_EveryDeviceWithIdIsAKey ==
    Updated
        => /\ DOMAIN data =
                {last.device_list[i].id :
                    i \in {j \in 1..Len(last.device_list) :
                              HasId(last.device_list[j])}}
           /\ \A i \in 1..Len(last.device_list) :
                 (HasId(last.device_list[i])
                  /\ WithoutStatus(last.statuses[i]))
                    => data[last.device_list[i].id] = last.device_list[i]

C25_Witness ==
    /\ Updated
    /\ Len(last.device_list) = 3
    /\ Cardinality({i \in 1..3 : WithoutStatus(last.statuses[i])}) = 1
    /\ last.statuses[3].kind = "raise"
    /\ Cardinality(DOMAIN data) = 3

\* C26: the status fields in the entry of device d come from the status
\* record whose id is d, never from another device's record.
C26_StatusComesFromMatchingRecord ==
    Updated
        => \A d \in DOMAIN data :
              /\ data[d].id = d
              /\ "state" \in DOMAIN data[d]
                    => data[d].state = StatusRecord(d).state

\* ------------------------------------------- claims on the configuration
\* C28: a configuration update leaves the token_refresh job's trigger and
\* every task and exchange in flight as they were; one that changes
\* status_poll_interval gives the status_poll job a trigger of the new
\* interval, so that the job's interval is the configured one afterwards.
C28_UpdateReschedulesOnlyThePoll ==
    [][last'.call = "update_config"
         => /\ tasks' = tasks
            /\ exchanges' = exchanges
            /\ scheduler'.token_refresh = scheduler.token_refresh
            /\ (config_data'.status_poll_interval
                   # config_data.status_poll_interval)
                  => scheduler'.status_poll # scheduler.status_poll
            /\ scheduler'.status_poll.interval
                  = config_data'.status_poll_interval]_vars

C28_Witness ==
    /\ last.call = "update_config"
    /\ config_data.status_poll_interval # DefaultStatusPollInterval
    /\ scheduler.status_poll.interval = config_data.status_poll_interval
    /\ tasks["health"].pc = "refresh_await"
    /\ tasks["h1"].pc = "sleep"

\* A token response refresh_access_token accepts.
Usable(response) ==
    /\ response.kind = "http" /\ response.status = 200 /\ response.json_ok
    /\ response.has_expires_in => response.expires_in_valid

\* A scheduled refresh has just completed with auto refresh disabled, and
\* its result was applied as for any other refresh.
ScheduledRefreshApplied ==
    (/\ last.call = "refresh_access_token"
     /\ last.site = "scheduled"
     /\ ~config_data.auto_refresh_enabled)
        => /\ tasks["health"] = IdleTask
           /\ last.refresh_ret = Bool(Usable(last.response))
           /\ Usable(last.response)
                 => /\ config_data.access_token
                        = AccessTokenAfter(config_data, last.response)
                    /\ last.response.has_refresh_token
                          => config_data.refresh_token
                               = last.response.refresh_token
                    /\ GetTokenExpiration(config_data)
                         = Datetime(now + ExpiresInOf(last.response))

\* C29: a configuration update that disables auto refresh while a scheduled
\* refresh is in progress does not cancel it (no task and no exchange in
\* flight changes), and the refresh in progress completes and applies its
\* result.
C29_DisablingDoesNotCancelRefresh ==
    [][/\ (config_data.auto_refresh_enabled
            /\ ~config_data'.auto_refresh_enabled)
              => (tasks' = tasks /\ exchanges' = exchanges)
       /\ ScheduledRefreshApplied']_vars

C29_Witness ==
    /\ last.call = "refresh_access_token"
    /\ last.site = "scheduled"
    /\ ~config_data.auto_refresh_enabled
    /\ last.refresh_ret = "True"
    /\ last.response.has_access_token
    /\ config_data.access_token = last.response.access_token

\* The steps of the refresh and of the exchange operation.
ByRefreshOrExchange == last'.call \in {"refresh_access_token", "exchange_code"}

\* C30 as stated: every change to a credential field (access_token,
\* refresh_token, access_key, secret_key, token_expires_at,
\* refresh_buffer_minutes) is made by the refresh or the exchange operation.
C30_OnlyRefreshOrExchangeWrite ==
    [][(\E f \in {"access_token", "refresh_token", "token_expires_at",
                   "access_key", "secret_key", "refresh_buffer_minutes"} :
           config_data'[f] # config_data[f])
          => ByRefreshOrExchange]_vars

\* C30: every change to access_token, refresh_token or token_expires_at is
\* made by the refresh or the exchange operation, and every change to
\* access_key, secret_key or refresh_buffer_minutes by the configuration
\* update.
C30_TokensByRefreshSettingsByUpdate ==
    [][/\ (\E f \in {"access_token", "refresh_token", "token_expires_at"} :
              config_data'[f] # config_data[f])
            => ByRefreshOrExchange
       /\ (\E f \in {"access_key", "secret_key", "refresh_buffer_minutes"} :
              config_data'[f] # config_data[f])
            => last'.call = "update_config"]_vars

C30_Witness ==
    /\ last.call = "update_config"
    /\ config_data.access_key # ""
    /\ config_data.refresh_buffer_minutes # DefaultRefreshBufferMinutes
    /\ config_data.access_token # ""
    /\ config_data.access_token # AccessTokenName(0)

\* ----------------------------------------- claims on the configuration file
\* The latest step was a refresh the vendor answered 200 with a usable body.
RefreshAnswered == last.call = "refresh_access_token" /\ Usable(last.response)

AllSaved == \A i \in 1..Len(last.saves) : last.saves[i] = "ok"

\* C33: when the vendor answers 200 to a refresh, refresh_access_token
\* returns True and config_data holds the new tokens and expiry, whether
\* or not the saves to the configuration file succeeded.
C33_FailedSaveDoesNotRollBack ==
    RefreshAnswered
        => /\ last.refresh_ret = "True"
           /\ config_data.access_token
                 = AccessTokenAfter(config_data, last.response)
           /\ last.response.has_refresh_token
                 => config_data.refresh_token = last.response.refresh_token
           /\ GetTokenExpiration(config_data)
                 = Datetime(now + ExpiresInOf(last.response))

C33_Witness ==
    /\ RefreshAnswered
    /\ last.saves = <<"write_failed", "open_failed">>
    /\ last.refresh_ret = "True"
    /\ last.response.has_access_token
    /\ config_data.access_token = last.response.access_token
    /\ config_file = Truncated

\* The latest step was a refresh that returned True or an exchange that
\* answered 200.
StoredTokens ==
    \/ last.call = "refresh_access_token" /\ last.refresh_ret = "True"
    \/ /\ last.call = "exchange_code"
       /\ last.response.kind = "http"
       /\ last.result.status = 200

\* C34: after a successful refresh or exchange whose saves succeeded, the
\* configuration file holds the credential config_data holds, so that
\* load_config at a restart gives back the same access token, refresh
\* token and token_expires_at.
C34_SavedCredentialIsTheStoredOne ==
    (StoredTokens /\ AllSaved)
        => Credential(LoadConfig(DefaultConfig, config_file))
             = Credential(config_data)

C34_Witness ==
    /\ StoredTokens /\ AllSaved
    /\ last.call = "refresh_access_token"
    /\ config_data.access_token \notin {"", AccessTokenName(0)}
    /\ config_file = JsonDump(config_data)

\* ------------------------------------------ claims on the on-demand handlers
\* C31: the reply of query_status, lock_device and unlock_device carries
\* the vendor's status when that is not 200, and 401 when no valid token
\* could be obtained.
C31_ReplyCarriesVendorStatus ==
    last.call \in OnDemandOps
        => /\ (last.outcome.kind = "http" /\ last.outcome.status # 200)
                 => last.result.status = last.outcome.status
           /\ (last.outcome.kind = "raise"
                /\ last.outcome.error = "TokenRefreshError")
                 => last.result.status = 401

\* ------------------------------------------------ claims on exchange_code
\* The step is exchange_code resuming with the token endpoint's answer.
ExchangeAnswered ==
    last'.call = "exchange_code" /\ last'.response.kind # "none"

\* C32: exchange_code answers with an error and leaves the credential as
\* it was whenever the vendor rejects the code or the configuration has no
\* redirect_uri or no access_key (client id).
C32_ExchangeFailsWithoutClient ==
    [][(/\ ExchangeAnswered
        /\ \/ last'.response.kind = "transport"
           \/ last'.response.status # 200
           \/ config_data.redirect_uri = ""
           \/ config_data.access_key = "")
          => /\ last'.result.status # 200
             /\ Credential(config_data') = Credential(config_data)]_vars

\* ------------------------------------------- claims on the request loop
\* Task p starts a send in this step.
SendStarts(p) ==
    tasks'[p].pc = "send_await" /\ tasks'[p] # tasks[p]

\* C35: every send of make_authenticated_request, the retries after a
\* backoff included, comes after a call of ensure_valid_token: when the
\* send starts the token is not expired, or the step has just refreshed
\* it.
C35_EnsureValidBeforeEverySend ==
    [][\A p \in Procs :
          SendStarts(p)
             => \/ ~IsTokenExpired(config_data', now')
                \/ last'.call = "refresh_access_token"]_vars

\* Task p goes into a backoff sleep in this step.
EntersBackoff(p) ==
    tasks'[p].pc = "sleep" /\ tasks[p].pc # "sleep"

\* C36: make_authenticated_request waits in backoff only after a
\* transport failure (401 is retried without a wait); any other error,
\* such as an unsupported method, is raised where it first occurs, with
\* no wait and no further attempt.
C36_BackoffOnlyAfterTransportFailure ==
    [][\A p \in Procs :
          /\ EntersBackoff(p)
                => /\ last'.outcome.kind = "raise"
                   /\ last'.outcome.error
                         \in {"TimeoutException", "ConnectError"}
          /\ (tasks'[p].pc # "idle" /\ ~Supported(tasks'[p].method))
                => tasks'[p].pc \notin {"sleep", "send_await"}]_vars

\* ----------------------------------------- claims on concurrent refreshes
\* Task p's refresh resumes in this step with a 200 answer that carries a
\* new access token and a new refresh token.
AppliesIssuedTokens(p) ==
    /\ tasks[p].pc = "refresh_await"
    /\ last'.task = p
    /\ last'.call = "refresh_access_token"
    /\ Usable(last'.response)
    /\ last'.response.has_access_token
    /\ last'.response.has_refresh_token

\* C37: the tokens stored are those of the most recently issued answer:
\* a refresh never puts the tokens of its exchange over the tokens of an
\* exchange the vendor received later.
C37_LatestIssuedTokensStay ==
    [][\A p \in Procs :
          AppliesIssuedTokens(p)
             => \A m \in (tasks[p].xid + 1)..exchanges :
                   /\ config_data.access_token # AccessTokenName(m)
                   /\ config_data.refresh_token # RefreshTokenName(m)]_vars

\* ------------------------------------------------- claims on get_config
\* Values a secret may have.
SecretValues == {"K1", "S1", "other"}

\* C38: what get_config returns does not depend on the value of a secret:
\* it is the same for every other non-empty value of secret_key, of
\* access_token or of refresh_token.
C38_GetConfigHidesSecrets ==
    \A f \in MaskedFields :
        config_data[f] # ""
           => \A v \in SecretValues :
                 GetConfigBody([config_data EXCEPT ![f] = v], now)
                   = GetConfigBody(config_data, now)

C38_Witness ==
    /\ last.call = "get_config"
    /\ config_data.secret_key = "S1"
    /\ config_data.access_token \notin {"", AccessTokenName(0)}
    /\ config_data.refresh_token # ""
    /\ last.body.secret_key = "***"
    /\ last.body.access_token = "***"
    /\ last.body.refresh_token = "***"

\* ---------------------------------------- claims on the lock entity
Commanded == last.call \in {"async_lock", "async_unlock"}

\* C39: a lock or unlock command of the coordinator never raises; it
\* returns True exactly when the gateway replied 200, False on any other
\* status, timeout or error; and the lock entity requests a refresh only
\* after a command that returned True.
C39_CommandReturnsWhetherReplied200 ==
    Commanded
        => /\ last.result.kind = "return"
           /\ last.success =
                 Bool(last.outcome.kind = "http" /\ last.outcome.status = 200)
           /\ last.refresh_requested = "True" => last.success = "True"

C39_Witness ==
    /\ Commanded
    /\ last.outcome.kind = "raise"
    /\ last.success = "False"
    /\ last.refresh_requested = "False"

====
